---- MODULE Spec2Model ----
(***************************************************************************)
(* State-machine model of src/main.cpp: the X11 window capture, FSR        *)
(* upscale and Vulkan present loop (run_session) and the application's     *)
(* idle loop (main).                                                       *)
(*                                                                         *)
(* The host program is single threaded; the GPU runs asynchronously and    *)
(* is the second process of the model (GpuComplete).  Platform answers     *)
(* (window sizes, surface capabilities, acquire/present results, capture   *)
(* results, accelerator context creation) are inputs drawn with \E.        *)
(***************************************************************************)
EXTENDS Integers, Sequences, FiniteSets, TLC

(* ----------------------------- bounds ---------------------------------- *)

\* window and surface sizes reported by the platform are d x d, d \in 1..MaxDim
MaxDim == 2
\* handles handed out by the platform (one per session start and per rebuild)
MaxHandles == 2
\* frames recorded in one session
MaxFrames == 2

(* ------------------------- program constants --------------------------- *)

\* VK_NULL_HANDLE, nullptr, None
Null == 0
\* caps.currentExtent.width value meaning "the surface size is set by the swapchain":
\* the all-ones 32-bit word 0xFFFFFFFF, written as the 32-bit integer with those bits
UINT32_MAX == -1
\* minImageCount the surface reports
MinImageCount == 1

Extents == {<<d, d>> : d \in 1..MaxDim}

ZeroExtent == <<0, 0>>

\* the VkSurfaceFormatKHR create_swapchain looks for
PreferredFormat ==
    [format |-> "B8G8R8A8_UNORM", colorSpace |-> "SRGB_NONLINEAR"]

\* what vkGetPhysicalDeviceSurfaceCapabilitiesKHR and
\* vkGetPhysicalDeviceSurfaceFormatsKHR may answer with; here the surface
\* offers the preferred format only
SurfaceCaps ==
    [currentExtent  : Extents \cup {ZeroExtent, <<UINT32_MAX, UINT32_MAX>>},
     minImageExtent : {<<1, 1>>},
     maxImageExtent : {<<MaxDim, MaxDim>>},
     minImageCount  : {MinImageCount},
     maxImageCount  : {0},
     formats        : {<<PreferredFormat>>}]

\* longest list of surface formats the platform reports
MaxFormats == 2

DefinedFormats ==
    [format     : {"B8G8R8A8_UNORM", "R8G8B8A8_UNORM"},
     colorSpace : {"SRGB_NONLINEAR", "EXTENDED_SRGB_LINEAR"}]

\* the non-empty lists the platform may report: defined formats, or the single
\* entry VK_FORMAT_UNDEFINED of a surface without a preferred format
FormatLists ==
    UNION {[1..n -> DefinedFormats] : n \in 1..MaxFormats}
    \cup {<<[format |-> "UNDEFINED", colorSpace |-> "SRGB_NONLINEAR"]>>}

\* the surface answers with any of these lists
SurfaceCapsAnyFormat ==
    {[caps EXCEPT !.formats = formats] :
        caps \in SurfaceCaps, formats \in FormatLists}

\* the windows an XEvent can name
EventWindows == {"main", "vk", "other"}

VARIABLES
    pc,           \* position of the host thread in main / run_session
    xc,           \* X11Context
    vc,           \* VulkanContext of the running session
    fc,           \* FSRContext of the running session
    capture,      \* CaptureBuffer: the XImage of the last capture_frame
    loc,          \* run_session locals: running, app_exit, frameCount, imageIndex
    s_firstFrame, \* static local of dispatch_fsr
    live,         \* platform objects that exist: <<kind, handle>>
    pending,      \* command buffers submitted to the queue and not yet executed
    fenceSignaled,\* state of the vc.inFlight fence
    ffx,          \* the accelerator library's view of its contexts
    recorded,     \* contents of the command buffer recorded last
    nextHandle,   \* next handle value the platform hands out
    imageLayout,  \* VkImageLayout of the capture and the input colour image
    mem           \* memory contents: XImage, mapped staging memory, image texels

vars == <<pc, xc, vc, fc, capture, loc, s_firstFrame, live, pending,
          fenceSignaled, ffx, recorded, nextHandle, imageLayout, mem>>

(* ------------------------- initial values ------------------------------ *)

\* X11Context xc{} after XOpenDisplay and init_x11_main
X11Context0 ==
    [dpy |-> 1, mainWindow |-> 1, vkWindow |-> Null, targetWindow |-> Null,
     targetPixmap |-> Null, capW |-> 0, capH |-> 0, outW |-> 0, outH |-> 0]

\* VulkanContext vc{}
VulkanContext0 ==
    [instance |-> Null, device |-> Null, surface |-> Null, swapchain |-> Null,
     swapExtent |-> ZeroExtent, swapImages |-> 0,
     cmdPool |-> Null, cmdBuffers |-> Null, cmdBufferCount |-> 0,
     imageAvailable |-> Null, renderFinished |-> Null, inFlight |-> Null,
     stagingBuffer |-> Null, stagingMemory |-> Null, stagingSize |-> 0,
     renderExtent |-> ZeroExtent, displayExtent |-> ZeroExtent,
     captureExtent |-> ZeroExtent,
     inputColorImage |-> Null, motionVectorImage |-> Null,
     outputColorImage |-> Null, depthImage |-> Null,
     captureColorImage |-> Null,
     swapchainFormat |-> "B8G8R8A8_UNORM"]

\* FSRContext fc{}
FSRContext0 ==
    [m_UpscalingContext |-> Null,
     maxUpscaleSize |-> ZeroExtent, maxRenderSize |-> ZeroExtent]

\* ffx::DispatchDescUpscale{}
DispatchDesc0 ==
    [reset |-> FALSE, renderSize |-> ZeroExtent, upscaleSize |-> ZeroExtent,
     jitterOn |-> FALSE]

\* CaptureBuffer capture{}
CaptureBuffer0 == [image |-> Null, bits_per_pixel |-> 0]

\* invalidated: the swapchain whose last vkQueuePresentKHR returned OUT_OF_DATE
\* or SUBOPTIMAL (presRes), Null when there is none; presRes goes out of scope
\* with the iteration, and only PresentSpec follows it.
\* dispatched: the jitter phases (jitterX, jitterY non-zero or not) of the
\* frames of the session that reached ffx::Dispatch, in order; only JitterSpec
\* follows them
Locals0 ==
    [running |-> TRUE, app_exit |-> FALSE, frameCount |-> 0, imageIndex |-> 0,
     invalidated |-> Null, dispatched |-> <<>>]

\* the accelerator library: the contexts that have not been dispatched against yet
Ffx0 == [fresh |-> {}]

\* no command buffer has been recorded.  fsrCalled, context and dispatchUpscale
\* are the ffx::Dispatch call made while recording: whether it was made, the
\* context and the descriptor (fc.dispatchUpscale) it was given.  cmds is the
\* command stream, from vkBeginCommandBuffer on.
NoRecording ==
    [cmd |-> <<Null, 0>>, refs |-> {}, fsrCalled |-> FALSE, context |-> Null,
     dispatchUpscale |-> DispatchDesc0, cmds |-> <<>>]

\* the layout of the images the staging step writes; an image that does not
\* exist, or was created and not used yet, is in VK_IMAGE_LAYOUT_UNDEFINED
ImageLayout0 ==
    [captureColorImage |-> "UNDEFINED", inputColorImage |-> "UNDEFINED"]

\* an XImage's fields: memory is a function from byte offsets to bytes
XImage0 == [width |-> 0, height |-> 0, bytes_per_line |-> 0, data |-> <<>>]

\* Host memory.  reads / writes: the byte offsets of the snapshot read and of
\* the mapping written by the last upload_capture_to_staging.  The frame loop
\* of Spec leaves the bytes untracked; UploadSpec follows them.
\* captureColorImage / inputColorImage: the texels of the two images, by
\* <<x, y>>; executed: how many commands of the recorded stream the GPU has
\* run.  Only BlitSpec follows these three.
Mem0 ==
    [image |-> XImage0, staging |-> <<>>, reads |-> {}, writes |-> {},
     captureColorImage |-> <<>>, inputColorImage |-> <<>>, executed |-> 0]

Init ==
    /\ pc = "idle"
    /\ xc = X11Context0
    /\ vc = VulkanContext0
    /\ fc = FSRContext0
    /\ capture = CaptureBuffer0
    /\ loc = Locals0
    /\ s_firstFrame = TRUE
    /\ live = {<<"mainWindow", 1>>, <<"display", 1>>}
    /\ pending = {}
    /\ fenceSignaled = FALSE
    /\ ffx = Ffx0
    /\ recorded = NoRecording
    /\ nextHandle = 1
    /\ imageLayout = ImageLayout0
    /\ mem = Mem0

(* ------------------- the C functions, as state updates ------------------ *)

\* The part of the state the helper functions read and write, as one record.
St ==
    [xc |-> xc, vc |-> vc, fc |-> fc, live |-> live, ffx |-> ffx,
     fenceSignaled |-> fenceSignaled, s_firstFrame |-> s_firstFrame,
     recorded |-> recorded, imageLayout |-> imageLayout]

\* that record in the initial state
St0 ==
    [xc |-> X11Context0, vc |-> VulkanContext0, fc |-> FSRContext0,
     live |-> {<<"mainWindow", 1>>, <<"display", 1>>}, ffx |-> Ffx0,
     fenceSignaled |-> FALSE, s_firstFrame |-> TRUE, recorded |-> NoRecording,
     imageLayout |-> ImageLayout0]

Commit(s) ==
    /\ xc' = s.xc
    /\ vc' = s.vc
    /\ fc' = s.fc
    /\ live' = s.live
    /\ ffx' = s.ffx
    /\ fenceSignaled' = s.fenceSignaled
    /\ s_firstFrame' = s.s_firstFrame
    /\ recorded' = s.recorded
    /\ imageLayout' = s.imageLayout

Clamp(e, lo, hi) ==
    LET a == IF e < lo THEN lo ELSE e
    IN  IF a > hi THEN hi ELSE a

\* create_swapchain: "Extent"
SwapExtentFor(caps, width, height) ==
    IF caps.currentExtent[1] # UINT32_MAX
    THEN caps.currentExtent
    ELSE <<Clamp(width,  caps.minImageExtent[1], caps.maxImageExtent[1]),
           Clamp(height, caps.minImageExtent[2], caps.maxImageExtent[2])>>

\* create_swapchain: "Image count"
ImageCountFor(caps) ==
    LET imageCount == caps.minImageCount + 1
    IN  IF caps.maxImageCount > 0 /\ imageCount > caps.maxImageCount
        THEN caps.maxImageCount
        ELSE imageCount

\* chosenFormat: formats[0], replaced by the preferred format when the list is
\* the single entry UNDEFINED, else by the first entry equal to the preferred
\* format when there is one
ChosenFormat(formats) ==
    IF Len(formats) = 1 /\ formats[1].format = "UNDEFINED"
    THEN PreferredFormat
    ELSE LET found == {i \in 1..Len(formats) : formats[i] = PreferredFormat}
         IN  IF found = {}
             THEN formats[1]
             ELSE formats[CHOOSE i \in found : \A j \in found : i <= j]

\* (an empty format list is fatal: one of the failures of SessionSetupFatal and
\* RebuildFatal)
create_swapchain(s, width, height, caps, h) ==
    [s EXCEPT !.vc.swapchainFormat = ChosenFormat(caps.formats).format,
              !.vc.swapExtent = SwapExtentFor(caps, width, height),
              !.vc.swapchain  = h,
              !.vc.swapImages = ImageCountFor(caps),
              !.live = @ \cup {<<"swapchain", h>>}]

create_command_pool_and_buffers(s, h) ==
    [s EXCEPT !.vc.cmdPool = h,
              !.vc.cmdBuffers = h,
              !.vc.cmdBufferCount = s.vc.swapImages,
              !.live = @ \cup {<<"cmdPool", h>>, <<"cmdBuffers", h>>}]

create_sync_objects(s, h) ==
    [s EXCEPT !.vc.imageAvailable = h,
              !.vc.renderFinished = h,
              !.vc.inFlight = h,
              !.fenceSignaled = TRUE,
              !.live = @ \cup {<<"imageAvailable", h>>, <<"renderFinished", h>>,
                               <<"inFlight", h>>}]

create_staging_buffer(s, h) ==
    [s EXCEPT !.vc.stagingSize = s.vc.captureExtent[1] * s.vc.captureExtent[2] * 4,
              !.vc.stagingBuffer = h,
              !.vc.stagingMemory = h,
              !.live = @ \cup {<<"stagingBuffer", h>>, <<"stagingMemory", h>>}]

\* each image stands for its VkImage, VkDeviceMemory and VkImageView
create_fsr_images(s, h) ==
    [s EXCEPT !.vc.inputColorImage = h,
              !.vc.outputColorImage = h,
              !.vc.motionVectorImage = h,
              !.vc.depthImage = h,
              !.vc.captureColorImage = h,
              !.imageLayout = ImageLayout0,
              !.live = @ \cup {<<"inputColorImage", h>>, <<"outputColorImage", h>>,
                               <<"motionVectorImage", h>>, <<"depthImage", h>>,
                               <<"captureColorImage", h>>}]

\* ok: whether ffx::CreateContext succeeds
initFSR(s, h, ok) ==
    LET sized == [s EXCEPT !.fc.m_UpscalingContext = Null,
                           !.fc.maxUpscaleSize = s.vc.displayExtent,
                           !.fc.maxRenderSize  = s.vc.renderExtent]
    IN  IF ok
        THEN [sized EXCEPT !.fc.m_UpscalingContext = h,
                           !.ffx.fresh = @ \cup {h},
                           !.live = @ \cup {<<"fsrContext", h>>}]
        ELSE sized

NonNull(targets) == {r \in targets : r[2] # Null}

\* the objects cleanup_fsr hands to a destroy call
cleanup_fsr_targets(s) ==
    NonNull({<<"fsrContext", s.fc.m_UpscalingContext>>,
             <<"inputColorImage", s.vc.inputColorImage>>,
             <<"outputColorImage", s.vc.outputColorImage>>,
             <<"motionVectorImage", s.vc.motionVectorImage>>,
             <<"depthImage", s.vc.depthImage>>,
             <<"captureColorImage", s.vc.captureColorImage>>})

\* only the context and the capture image handles are nulled after the destroy
cleanup_fsr(s) ==
    [s EXCEPT !.fc.m_UpscalingContext = Null,
              !.vc.captureColorImage = Null,
              !.ffx.fresh = @ \ {s.fc.m_UpscalingContext},
              !.imageLayout = ImageLayout0,
              !.live = @ \ cleanup_fsr_targets(s)]

\* the objects recreate_swapchain destroys before it re-creates
recreate_swapchain_targets(s) ==
    NonNull({<<"cmdBuffers", s.vc.cmdBuffers>>,
             <<"stagingBuffer", s.vc.stagingBuffer>>,
             <<"stagingMemory", s.vc.stagingMemory>>,
             <<"swapchain", s.vc.swapchain>>})

\* mutant: the command buffers of the old swapchain are kept and the new ones
\* are added to them
recreate_swapchain_appending(s, attrs, caps, h) ==
    LET torn == [s EXCEPT !.live = @ \ recreate_swapchain_targets(s),
                          !.vc.stagingBuffer = Null,
                          !.vc.stagingMemory = Null,
                          !.vc.swapchain = Null,
                          !.recorded = NoRecording,
                          !.xc.outW = attrs[1],
                          !.xc.outH = attrs[2]]
        made == create_staging_buffer(
                    create_command_pool_and_buffers(
                        create_swapchain(torn, attrs[1], attrs[2], caps, h), h), h)
    IN  [made EXCEPT !.vc.cmdBufferCount = s.vc.cmdBufferCount + made.vc.swapImages]

\* attrs: the size XGetWindowAttributes reports for xc.vkWindow.
\* (vkDeviceWaitIdle at its head is the guard vkDeviceWaitIdle of the caller.)
recreate_swapchain(s, attrs, caps, h) ==
    LET torn == [s EXCEPT !.live = @ \ recreate_swapchain_targets(s),
                          !.vc.cmdBuffers = Null,
                          !.vc.cmdBufferCount = 0,
                          !.vc.stagingBuffer = Null,
                          !.vc.stagingMemory = Null,
                          !.vc.swapchain = Null,
                          !.recorded = NoRecording,
                          !.xc.outW = attrs[1],
                          !.xc.outH = attrs[2]]
    IN  create_staging_buffer(
            create_command_pool_and_buffers(
                create_swapchain(torn, attrs[1], attrs[2], caps, h), h), h)

\* mutant: the rebuild re-creates the swapchain and keeps the FSR images and
\* the FSR context
RebuildBody_swapchain_only(s, attrs, caps, h, ok) ==
    LET swapped == recreate_swapchain(s, attrs, caps, h)
    IN  [swapped EXCEPT
            !.vc.displayExtent = <<swapped.xc.outW, swapped.xc.outH>>,
            !.vc.renderExtent  = swapped.vc.captureExtent]

\* mutant: the rebuild destroys the FSR images and does not create new ones
RebuildBody_uncreated(s, attrs, caps, h, ok) ==
    LET swapped == recreate_swapchain(cleanup_fsr(s), attrs, caps, h)
        sized   == [swapped EXCEPT
                       !.vc.displayExtent = <<swapped.xc.outW, swapped.xc.outH>>,
                       !.vc.renderExtent  = swapped.vc.captureExtent]
    IN  initFSR(sized, h, ok)

\* the rebuild run_session performs on ConfigureNotify of vkWindow and on an
\* OutOfDate / Suboptimal acquire, after its vkDeviceWaitIdle
RebuildBody(s, attrs, caps, h, ok) ==
    LET swapped == recreate_swapchain(cleanup_fsr(s), attrs, caps, h)
        sized   == [swapped EXCEPT
                       !.vc.displayExtent = <<swapped.xc.outW, swapped.xc.outH>>,
                       !.vc.renderExtent  = swapped.vc.captureExtent]
    IN  initFSR(create_fsr_images(sized, h), h, ok)

\* the objects cleanup_session destroys (vkDestroyCommandPool frees the pool's
\* command buffers; cb is the CaptureBuffer)
cleanup_session_targets(s, cb) ==
    (IF s.vc.device # Null
     THEN NonNull({<<"stagingBuffer", s.vc.stagingBuffer>>,
                   <<"stagingMemory", s.vc.stagingMemory>>,
                   <<"imageAvailable", s.vc.imageAvailable>>,
                   <<"renderFinished", s.vc.renderFinished>>,
                   <<"inFlight", s.vc.inFlight>>,
                   <<"cmdPool", s.vc.cmdPool>>,
                   <<"cmdBuffers", s.vc.cmdPool>>,
                   <<"swapchain", s.vc.swapchain>>,
                   <<"surface", s.vc.surface>>,
                   <<"device", s.vc.device>>})
     ELSE {})
    \cup NonNull({<<"instance", s.vc.instance>>,
                  <<"ximage", cb.image>>,
                  <<"targetPixmap", s.xc.targetPixmap>>,
                  <<"vkWindow", s.xc.vkWindow>>})

\* mutant: the session teardown also closes the display connection
cleanup_session_closing(s, cb) ==
    [s EXCEPT !.live = @ \ (cleanup_session_targets(s, cb)
                              \cup {<<"display", s.xc.dpy>>}),
              !.xc.targetPixmap = Null,
              !.xc.vkWindow = Null,
              !.xc.dpy = Null]

cleanup_session(s, cb) ==
    [s EXCEPT !.live = @ \ cleanup_session_targets(s, cb),
              !.xc.targetPixmap = Null,
              !.xc.vkWindow = Null]

cleanup_app(s) ==
    [s EXCEPT !.live = @ \ NonNull({<<"mainWindow", s.xc.mainWindow>>,
                                    <<"display", s.xc.dpy>>}),
              !.xc.mainWindow = Null,
              !.xc.dpy = Null]

\* run_session up to the frame loop: init_x11_copy, instance, surface, device,
\* swapchain, command buffers, sync objects, staging buffer, FSR images, initFSR.
\* cap: size of the focused window; out: size of the screen.
SessionSetup(s, cap, out, caps, h, ok) ==
    LET x11 == [s EXCEPT !.xc.targetWindow = h,
                         !.xc.capW = cap[1], !.xc.capH = cap[2],
                         !.xc.outW = out[1], !.xc.outH = out[2],
                         !.xc.targetPixmap = h,
                         !.xc.vkWindow = h,
                         !.live = @ \cup {<<"targetPixmap", h>>, <<"vkWindow", h>>}]
        dev == [x11 EXCEPT !.vc = [VulkanContext0 EXCEPT
                                      !.instance = h, !.surface = h, !.device = h,
                                      !.captureExtent = cap,
                                      !.displayExtent = out,
                                      !.renderExtent = cap],
                           !.fc = FSRContext0,
                           !.recorded = NoRecording,
                           !.live = @ \cup {<<"instance", h>>, <<"surface", h>>,
                                            <<"device", h>>}]
        swap == create_swapchain(dev, out[1], out[2], caps, h)
        disp == [swap EXCEPT !.vc.displayExtent = swap.vc.swapExtent]
    IN  initFSR(
            create_fsr_images(
                create_staging_buffer(
                    create_sync_objects(
                        create_command_pool_and_buffers(disp, h), h), h), h), h, ok)

\* mutant: a resize of the captured window is taken for a resize of the output
update_target_pixmap_if_needed_display(s, attrsOk, new, pixmap) ==
    IF ~attrsOk \/ (new[1] = s.xc.capW /\ new[2] = s.xc.capH)
    THEN s
    ELSE [s EXCEPT !.xc.capW = new[1],
                   !.xc.capH = new[2],
                   !.vc.displayExtent = new]

\* mutant: a resize of the captured window also tears the FSR state down
update_target_pixmap_if_needed_fsr(s, attrsOk, new, pixmap) ==
    IF ~attrsOk \/ (new[1] = s.xc.capW /\ new[2] = s.xc.capH)
    THEN s
    ELSE cleanup_fsr([s EXCEPT !.xc.capW = new[1], !.xc.capH = new[2]])

\* update_target_pixmap_if_needed.  attrsOk: XGetWindowAttributes succeeds;
\* new: the size it reports; pixmap: what XCompositeNameWindowPixmap returns
update_target_pixmap_if_needed(s, attrsOk, new, pixmap) ==
    IF ~attrsOk \/ (new[1] = s.xc.capW /\ new[2] = s.xc.capH)
    THEN s
    ELSE [s EXCEPT !.xc.capW = new[1],
                   !.xc.capH = new[2],
                   !.xc.targetPixmap = pixmap,
                   !.live = (@ \ NonNull({<<"targetPixmap", s.xc.targetPixmap>>}))
                            \cup NonNull({<<"targetPixmap", pixmap>>})]

\* capture_frame's CaptureBuffer after the call.  result: what XGetImage returns
capture_frame_image(x, result) ==
    IF result = "null" \/ x.targetPixmap = Null
    THEN CaptureBuffer0
    ELSE [image |-> 1, bits_per_pixel |-> IF result = "ok" THEN 32 ELSE 24]

capture_frame_ok(cb) == cb.image # Null /\ cb.bits_per_pixel = 32

Min(a, b) == IF a < b THEN a ELSE b

\* the (row, byte-in-row) pairs the memcpy loop copies: rows 0..height-1,
\* copyWidthBytes bytes of each
CopiedBytes(height, copyWidthBytes) ==
    {<<y, k>> : y \in 0..(height - 1), k \in 0..(copyWidthBytes - 1)}

\* the mapped staging memory after the memset and the memcpy loop
StagingAfter(stagingSize, cleared, src, srcStride, dstStride, copied) ==
    [o \in 0..(stagingSize - 1) |->
        IF \E c \in copied : c[1] * dstStride + c[2] = o
        THEN LET c == CHOOSE c \in copied : c[1] * dstStride + c[2] = o
                 from == c[1] * srcStride + c[2]
             IN  IF from \in DOMAIN src THEN src[from] ELSE -1
        ELSE cleared[o]]

\* mutant: upload_capture_to_staging without the memset
upload_capture_to_staging_nomemset(m, captureExtent, stagingSize) ==
    LET width  == Min(captureExtent[1], m.image.width)
        height == Min(captureExtent[2], m.image.height)
        dstStride == captureExtent[1] * 4
        copied == CopiedBytes(height, width * 4)
    IN  [m EXCEPT
           !.staging = StagingAfter(stagingSize, m.staging, m.image.data,
                                    m.image.bytes_per_line, dstStride, copied),
           !.reads  = {c[1] * m.image.bytes_per_line + c[2] : c \in copied},
           !.writes = {c[1] * dstStride + c[2] : c \in copied}]

\* mutant: upload_capture_to_staging copying the whole snapshot, unclamped
upload_capture_to_staging_unclamped(m, captureExtent, stagingSize) ==
    LET dstStride == captureExtent[1] * 4
        copied == CopiedBytes(m.image.height, m.image.width * 4)
    IN  [m EXCEPT
           !.staging = StagingAfter(stagingSize, [o \in 0..(stagingSize - 1) |-> 0],
                                    m.image.data, m.image.bytes_per_line,
                                    dstStride, copied),
           !.reads  = {c[1] * m.image.bytes_per_line + c[2] : c \in copied},
           !.writes = (0..(stagingSize - 1))
                          \cup {c[1] * dstStride + c[2] : c \in copied}]

\* upload_capture_to_staging(xc, cb, vc): m.image is *cb.image
upload_capture_to_staging(m, captureExtent, stagingSize) ==
    LET cleared == [o \in 0..(stagingSize - 1) |-> 0]
        srcStride == m.image.bytes_per_line
        width  == Min(captureExtent[1], m.image.width)
        height == Min(captureExtent[2], m.image.height)
        dstStride == captureExtent[1] * 4
        copyWidthBytes == width * 4
        copied == CopiedBytes(height, copyWidthBytes)
    IN  [m EXCEPT
           !.staging = StagingAfter(stagingSize, cleared, m.image.data,
                                    srcStride, dstStride, copied),
           !.reads  = {c[1] * srcStride + c[2] : c \in copied},
           !.writes = (0..(stagingSize - 1))
                          \cup {c[1] * dstStride + c[2] : c \in copied}]

\* transition_image_layout: the image memory barrier it records; the access
\* masks follow from the pair of layouts, and are empty for a pair the
\* function does not know
transition_image_layout(image, oldLayout, newLayout) ==
    LET masks ==
            IF oldLayout = "UNDEFINED" /\ newLayout = "TRANSFER_DST_OPTIMAL"
            THEN <<{}, {"TRANSFER_WRITE"}>>
            ELSE IF oldLayout = "TRANSFER_DST_OPTIMAL"
                    /\ newLayout = "SHADER_READ_ONLY_OPTIMAL"
            THEN <<{"TRANSFER_WRITE"}, {"SHADER_READ"}>>
            ELSE IF oldLayout = "UNDEFINED" /\ newLayout = "GENERAL"
            THEN <<{}, {"SHADER_WRITE"}>>
            ELSE IF oldLayout = "TRANSFER_DST_OPTIMAL"
                    /\ newLayout = "TRANSFER_SRC_OPTIMAL"
            THEN <<{"TRANSFER_WRITE"}, {"TRANSFER_READ"}>>
            ELSE IF oldLayout = "TRANSFER_SRC_OPTIMAL"
                    /\ newLayout = "TRANSFER_DST_OPTIMAL"
            THEN <<{"TRANSFER_READ"}, {"TRANSFER_WRITE"}>>
            ELSE IF oldLayout = "SHADER_READ_ONLY_OPTIMAL"
                    /\ newLayout = "TRANSFER_DST_OPTIMAL"
            THEN <<{"SHADER_READ"}, {"TRANSFER_WRITE"}>>
            ELSE <<{}, {}>>
    IN  [op |-> "vkCmdPipelineBarrier", image |-> image,
         oldLayout |-> oldLayout, newLayout |-> newLayout,
         srcAccessMask |-> masks[1], dstAccessMask |-> masks[2],
         reads |-> {}, writes |-> {}]

\* a recorded command that reads the resources src and writes the resources dst
Command(op, src, dst) == [op |-> op, reads |-> src, writes |-> dst]

\* mutant: dispatch_fsr without its null check
dispatch_fsr_unchecked(s, jitterOn, rc) ==
    [s EXCEPT !.recorded.fsrCalled = TRUE,
              !.recorded.context = s.fc.m_UpscalingContext,
              !.s_firstFrame = FALSE]

\* mutant: every dispatch asks the accelerator to reset its history
dispatch_fsr_resetting(s, jitterOn, rc) ==
    IF s.fc.m_UpscalingContext = Null
    THEN s
    ELSE [s EXCEPT
            !.recorded.dispatchUpscale =
                [reset |-> TRUE,
                 renderSize |-> s.vc.renderExtent,
                 upscaleSize |-> s.vc.displayExtent,
                 jitterOn |-> jitterOn],
            !.recorded.fsrCalled = TRUE,
            !.recorded.context = s.fc.m_UpscalingContext,
            !.recorded.refs = @ \cup {<<"fsrContext", s.fc.m_UpscalingContext>>,
                                      <<"depthImage", s.vc.depthImage>>,
                                      <<"motionVectorImage", s.vc.motionVectorImage>>},
            !.recorded.cmds = Append(@,
                Command("ffx::Dispatch",
                        {"inputColorImage", "depthImage", "motionVectorImage"},
                        {"outputColorImage"})),
            !.ffx.fresh = @ \ {s.fc.m_UpscalingContext},
            !.s_firstFrame = FALSE]

\* dispatch_fsr.  rc: the ffx::ReturnCode of ffx::Dispatch; a failure is
\* reported on stderr and changes nothing else.
dispatch_fsr(s, jitterOn, rc) ==
    IF s.fc.m_UpscalingContext = Null
    THEN s
    ELSE [s EXCEPT
            !.recorded.dispatchUpscale =
                [reset |-> s.s_firstFrame,
                 renderSize |-> s.vc.renderExtent,
                 upscaleSize |-> s.vc.displayExtent,
                 jitterOn |-> jitterOn],
            !.recorded.fsrCalled = TRUE,
            !.recorded.context = s.fc.m_UpscalingContext,
            !.recorded.refs = @ \cup {<<"fsrContext", s.fc.m_UpscalingContext>>,
                                      <<"depthImage", s.vc.depthImage>>,
                                      <<"motionVectorImage", s.vc.motionVectorImage>>},
            !.recorded.cmds = Append(@,
                Command("ffx::Dispatch",
                        {"inputColorImage", "depthImage", "motionVectorImage"},
                        {"outputColorImage"})),
            !.ffx.fresh = @ \ {s.fc.m_UpscalingContext},
            !.s_firstFrame = FALSE]

\* the layout the barriers of the command stream cmds leave image in, when it
\* was in layout before
RECURSIVE LayoutAfter(_, _, _)
LayoutAfter(cmds, image, before) ==
    IF cmds = <<>>
    THEN before
    ELSE LET c == Head(cmds)
         IN  LayoutAfter(Tail(cmds), image,
                 IF c.op = "vkCmdPipelineBarrier" /\ c.image = image
                 THEN c.newLayout
                 ELSE before)

\* STEP 1 of record_upscale_and_present: staging buffer -> capture image ->
\* (blit) -> input image
StagingCommands(frameCount) ==
    LET capOld == IF frameCount = 0 THEN "UNDEFINED" ELSE "TRANSFER_SRC_OPTIMAL"
        inOld  == IF frameCount = 0 THEN "UNDEFINED"
                  ELSE "SHADER_READ_ONLY_OPTIMAL"
    IN  <<transition_image_layout("captureColorImage", capOld,
                                  "TRANSFER_DST_OPTIMAL"),
          Command("vkCmdCopyBufferToImage", {"stagingBuffer"},
                  {"captureColorImage"}),
          transition_image_layout("captureColorImage", "TRANSFER_DST_OPTIMAL",
                                  "TRANSFER_SRC_OPTIMAL"),
          transition_image_layout("inputColorImage", inOld,
                                  "TRANSFER_DST_OPTIMAL"),
          Command("vkCmdBlitImage", {"captureColorImage"}, {"inputColorImage"}),
          transition_image_layout("inputColorImage", "TRANSFER_DST_OPTIMAL",
                                  "SHADER_READ_ONLY_OPTIMAL")>>

\* STEP 4 of record_upscale_and_present: output image -> swap image
PresentCommands ==
    <<transition_image_layout("swapImage", "UNDEFINED", "TRANSFER_DST_OPTIMAL"),
      Command("vkCmdCopyImage", {"outputColorImage"}, {"swapImage"}),
      transition_image_layout("swapImage", "TRANSFER_DST_OPTIMAL",
                              "PRESENT_SRC_KHR"),
      Command("vkEndCommandBuffer", {}, {})>>

\* record_upscale_and_present from vkBeginCommandBuffer to the return of
\* dispatch_fsr (STEP 1 to STEP 3)
RecordedToDispatch(s, imageIndex, frameCount, rc) ==
    LET staged == StagingCommands(frameCount)
                      \o <<transition_image_layout("outputColorImage",
                                                   "UNDEFINED", "GENERAL")>>
        begun == [s EXCEPT !.recorded =
                     [cmd |-> <<s.vc.cmdBuffers, imageIndex>>,
                      refs |-> {<<"cmdBuffers", s.vc.cmdBuffers>>,
                                <<"stagingBuffer", s.vc.stagingBuffer>>,
                                <<"stagingMemory", s.vc.stagingMemory>>,
                                <<"captureColorImage", s.vc.captureColorImage>>,
                                <<"inputColorImage", s.vc.inputColorImage>>,
                                <<"outputColorImage", s.vc.outputColorImage>>,
                                <<"swapchain", s.vc.swapchain>>},
                      fsrCalled |-> FALSE,
                      context |-> Null,
                      dispatchUpscale |-> DispatchDesc0,
                      cmds |-> staged],
                   !.imageLayout =
                     [captureColorImage |->
                          LayoutAfter(staged, "captureColorImage",
                                      s.imageLayout.captureColorImage),
                      inputColorImage |->
                          LayoutAfter(staged, "inputColorImage",
                                      s.imageLayout.inputColorImage)]]
    IN  dispatch_fsr(begun, frameCount % 2 = 0, rc)

\* mutant: a failed dispatch abandons the recording
record_upscale_and_present_abandoning(s, imageIndex, frameCount, rc) ==
    LET run == RecordedToDispatch(s, imageIndex, frameCount, rc)
    IN  IF run.recorded.fsrCalled /\ ~rc
        THEN run
        ELSE [run EXCEPT !.recorded.cmds = @ \o PresentCommands]

\* record_upscale_and_present(vc, fc, imageIndex, deltaTime, frameCount)
record_upscale_and_present(s, imageIndex, frameCount, rc) ==
    LET run == RecordedToDispatch(s, imageIndex, frameCount, rc)
    IN  [run EXCEPT !.recorded.cmds = @ \o PresentCommands]

(* ------------------------------ the GPU --------------------------------- *)

\* the queue finishes a submitted command buffer and signals the fence given
\* to vkQueueSubmit
GpuComplete ==
    /\ \E p \in pending : pending' = pending \ {p}
    /\ fenceSignaled' = TRUE
    /\ UNCHANGED <<pc, xc, vc, fc, capture, loc, s_firstFrame, live, ffx,
                   recorded, imageLayout, nextHandle>>
    /\ UNCHANGED mem

\* vkDeviceWaitIdle returns once nothing submitted is still executing
vkDeviceWaitIdle == pending = {}

\* mutant: the fence wait returns at once
vkWaitForFences_nowait == TRUE

\* vkWaitForFences(inFlight, UINT64_MAX) returns once the fence is signaled
vkWaitForFences == fenceSignaled

\* std::exit: the process and everything it held are gone
ProcessExit(status) ==
    /\ pc' = status
    /\ xc' = [X11Context0 EXCEPT !.dpy = Null, !.mainWindow = Null]
    /\ vc' = VulkanContext0
    /\ fc' = FSRContext0
    /\ capture' = CaptureBuffer0
    /\ loc' = Locals0
    /\ s_firstFrame' = TRUE
    /\ live' = {}
    /\ pending' = {}
    /\ fenceSignaled' = FALSE
    /\ ffx' = Ffx0
    /\ recorded' = NoRecording
    /\ imageLayout' = ImageLayout0
    /\ UNCHANGED nextHandle
    /\ UNCHANGED mem

(* --------------------------- main: idle loop ---------------------------- *)

\* main: KeyPress of the toggle hotkey; run_session up to the frame loop
MainHotkey(cap, out, caps, ok) ==
    /\ pc = "idle"
    /\ nextHandle <= MaxHandles
    /\ Commit(SessionSetup(St, cap, out, caps, nextHandle, ok))
    /\ nextHandle' = nextHandle + 1
    /\ capture' = CaptureBuffer0
    /\ loc' = Locals0
    /\ pc' = "events"
    /\ UNCHANGED pending
    /\ UNCHANGED mem

\* fatal() / vk_check() during session construction: std::exit
SessionSetupFatal ==
    /\ pc = "idle"
    /\ ProcessExit("fatal")

\* main: DestroyNotify of the main window
MainDestroyNotify ==
    /\ pc = "idle"
    /\ pc' = "app_cleanup"
    /\ UNCHANGED <<xc, vc, fc, capture, loc, s_firstFrame, live, pending,
                   fenceSignaled, ffx, recorded, imageLayout, nextHandle>>
    /\ UNCHANGED mem

\* main: any other event
MainOtherEvent ==
    /\ pc = "idle"
    /\ UNCHANGED vars

\* main: cleanup_app, return 0
CleanupApp ==
    /\ pc = "app_cleanup"
    /\ Commit(cleanup_app(St))
    /\ pc' = "exited"
    /\ UNCHANGED <<capture, loc, pending, nextHandle>>
    /\ UNCHANGED mem

(* ---------------------- run_session: event drain ------------------------ *)

\* mutant: a DestroyNotify of any window requests application exit
EvDestroyNotify_any(w) ==
    /\ pc = "events"
    /\ loc' = [loc EXCEPT !.app_exit = TRUE, !.running = FALSE]
    /\ UNCHANGED <<pc, xc, vc, fc, capture, s_firstFrame, live, pending,
                   fenceSignaled, ffx, recorded, imageLayout, nextHandle>>
    /\ UNCHANGED mem

\* case DestroyNotify: app_exit only for the main window, running = false
EvDestroyNotify(w) ==
    /\ pc = "events"
    /\ loc' = [loc EXCEPT !.app_exit = IF w = "main" THEN TRUE ELSE @,
                          !.running = FALSE]
    /\ UNCHANGED <<pc, xc, vc, fc, capture, s_firstFrame, live, pending,
                   fenceSignaled, ffx, recorded, imageLayout, nextHandle>>
    /\ UNCHANGED mem

\* mutant: the toggle hotkey also requests application exit
EvKeyPress_exit(toggle) ==
    /\ pc = "events"
    /\ loc' = [loc EXCEPT !.running = IF toggle THEN FALSE ELSE @,
                          !.app_exit = IF toggle THEN TRUE ELSE @]
    /\ UNCHANGED <<pc, xc, vc, fc, capture, s_firstFrame, live, pending,
                   fenceSignaled, ffx, recorded, imageLayout, nextHandle>>
    /\ UNCHANGED mem

EvKeyPress(toggle) ==
    /\ pc = "events"
    /\ loc' = [loc EXCEPT !.running = IF toggle THEN FALSE ELSE @]
    /\ UNCHANGED <<pc, xc, vc, fc, capture, s_firstFrame, live, pending,
                   fenceSignaled, ffx, recorded, imageLayout, nextHandle>>
    /\ UNCHANGED mem

\* ConfigureNotify of xc.vkWindow
EvConfigureNotifyVk(attrs, caps, ok) ==
    /\ pc = "events"
    /\ nextHandle <= MaxHandles
    /\ vkDeviceWaitIdle
    /\ Commit(RebuildBody(St, attrs, caps, nextHandle, ok))
    /\ nextHandle' = nextHandle + 1
    /\ UNCHANGED <<pc, capture, loc, pending>>
    /\ UNCHANGED mem

\* ConfigureNotify of another window, and every other event type
EvIgnored ==
    /\ pc = "events"
    /\ UNCHANGED vars

\* fatal() / vk_check() inside recreate_swapchain: std::exit
RebuildFatal ==
    /\ pc \in {"events", "acquire"}
    /\ vkDeviceWaitIdle
    /\ ProcessExit("fatal")

\* mutant: the iteration goes on to its frame although a drained event ended
\* the session
EventsDrained_ignoring ==
    /\ pc = "events"
    /\ pc' = "update"
    /\ UNCHANGED <<xc, vc, fc, capture, loc, s_firstFrame, live, pending,
                   fenceSignaled, ffx, recorded, imageLayout, nextHandle>>
    /\ UNCHANGED mem

\* XPending returns 0: "if (!running) break;"
EventsDrained ==
    /\ pc = "events"
    /\ pc' = IF loc.running THEN "update" ELSE "cleanup_fsr"
    /\ UNCHANGED <<xc, vc, fc, capture, loc, s_firstFrame, live, pending,
                   fenceSignaled, ffx, recorded, imageLayout, nextHandle>>
    /\ UNCHANGED mem

(* ------------------------ run_session: one frame ------------------------ *)

\* The pixmap XCompositeNameWindowPixmap names is identified by its window.
UpdateTargetPixmap(attrsOk, new, pixOk) ==
    /\ pc = "update"
    /\ Commit(update_target_pixmap_if_needed(
                 St, attrsOk, new, IF pixOk THEN xc.targetWindow ELSE Null))
    /\ pc' = "capture"
    /\ UNCHANGED <<capture, loc, pending, nextHandle>>
    /\ UNCHANGED mem

\* mutant: the frame goes on after a failed capture
CaptureFrame_noskip(result) ==
    /\ pc = "capture"
    /\ capture' = capture_frame_image(xc, result)
    /\ live' = (live \ NonNull({<<"ximage", capture.image>>}))
               \cup NonNull({<<"ximage", capture'.image>>})
    /\ pc' = "upload"
    /\ UNCHANGED <<xc, vc, fc, loc, s_firstFrame, pending, fenceSignaled, ffx,
                   recorded, imageLayout, nextHandle>>
    /\ UNCHANGED mem

\* "if (!capture_frame(xc, capture)) continue;"
CaptureFrame(result) ==
    /\ pc = "capture"
    /\ capture' = capture_frame_image(xc, result)
    /\ live' = (live \ NonNull({<<"ximage", capture.image>>}))
               \cup NonNull({<<"ximage", capture'.image>>})
    /\ pc' = IF capture_frame_ok(capture') THEN "upload" ELSE "events"
    /\ UNCHANGED <<xc, vc, fc, loc, s_firstFrame, pending, fenceSignaled, ffx,
                   recorded, imageLayout, nextHandle>>
    /\ UNCHANGED mem

\* upload_capture_to_staging: the host writes the staging buffer
UploadCapture ==
    /\ pc = "upload"
    /\ pc' = "wait"
    /\ UNCHANGED <<xc, vc, fc, capture, loc, s_firstFrame, live, pending,
                   fenceSignaled, ffx, recorded, imageLayout, nextHandle>>
    /\ UNCHANGED mem

\* vkWaitForFences, vkResetFences
WaitAndResetFence ==
    /\ pc = "wait"
    /\ vkWaitForFences
    /\ fenceSignaled' = FALSE
    /\ pc' = "acquire"
    /\ UNCHANGED <<xc, vc, fc, capture, loc, s_firstFrame, live, pending, ffx,
                   recorded, imageLayout, nextHandle>>
    /\ UNCHANGED mem

\* vkAcquireNextImageKHR returns VK_SUCCESS
AcquireSuccess(i) ==
    /\ pc = "acquire"
    /\ loc.frameCount < MaxFrames
    /\ i \in 0..(vc.swapImages - 1)
    /\ loc' = [loc EXCEPT !.imageIndex = i]
    /\ pc' = "record"
    /\ UNCHANGED <<xc, vc, fc, capture, s_firstFrame, live, pending,
                   fenceSignaled, ffx, recorded, imageLayout, nextHandle>>
    /\ UNCHANGED mem

\* vkAcquireNextImageKHR returns OUT_OF_DATE or SUBOPTIMAL: rebuild, continue
AcquireInvalid(attrs, caps, ok) ==
    /\ pc = "acquire"
    /\ nextHandle <= MaxHandles
    /\ vkDeviceWaitIdle
    /\ Commit(RebuildBody(St, attrs, caps, nextHandle, ok))
    /\ nextHandle' = nextHandle + 1
    /\ pc' = "events"
    /\ UNCHANGED <<capture, loc, pending>>
    /\ UNCHANGED mem

\* vkAcquireNextImageKHR returns another error: break
AcquireError ==
    /\ pc = "acquire"
    /\ pc' = "cleanup_fsr"
    /\ UNCHANGED <<xc, vc, fc, capture, loc, s_firstFrame, live, pending,
                   fenceSignaled, ffx, recorded, imageLayout, nextHandle>>
    /\ UNCHANGED mem

\* record_upscale_and_present(vc, fc, imageIndex, deltaTime, frameCount++)
\* rc: whether the ffx::Dispatch it makes succeeds
RecordFrame(rc) ==
    /\ pc = "record"
    /\ Commit(record_upscale_and_present(St, loc.imageIndex, loc.frameCount, rc))
    /\ loc' = [loc EXCEPT !.frameCount = @ + 1]
    /\ pc' = "submit"
    /\ UNCHANGED <<capture, pending, nextHandle>>
    /\ UNCHANGED mem

\* vkQueueSubmit(queue, cmdBuffers[imageIndex], inFlight)
QueueSubmit ==
    /\ pc = "submit"
    /\ pending' = pending \cup {[cmd |-> recorded.cmd, refs |-> recorded.refs,
                                 frame |-> loc.frameCount]}
    /\ pc' = "present"
    /\ UNCHANGED <<xc, vc, fc, capture, loc, s_firstFrame, live, fenceSignaled,
                   ffx, recorded, imageLayout, nextHandle>>
    /\ UNCHANGED mem

\* vkQueuePresentKHR: success, OUT_OF_DATE and SUBOPTIMAL continue; others break
QueuePresent(result) ==
    /\ pc = "present"
    /\ pc' = IF result = "error" THEN "cleanup_fsr" ELSE "events"
    /\ loc' = [loc EXCEPT !.imageIndex = 0]
    /\ UNCHANGED <<xc, vc, fc, capture, s_firstFrame, live, pending,
                   fenceSignaled, ffx, recorded, imageLayout, nextHandle>>
    /\ UNCHANGED mem

(* ----------------------- run_session: teardown -------------------------- *)

\* "cleanup_fsr(vc, fc);" after the loop
CleanupFsr ==
    /\ pc = "cleanup_fsr"
    /\ Commit(cleanup_fsr(St))
    /\ pc' = "cleanup_session"
    /\ UNCHANGED <<capture, loc, pending, nextHandle>>
    /\ UNCHANGED mem

\* "cleanup_session(vc, xc, capture); return app_exit;" and main's
\* "if (want_exit) app_running = false;".  The locals of run_session end here.
CleanupSession ==
    /\ pc = "cleanup_session"
    /\ vc.device # Null => vkDeviceWaitIdle
    /\ Commit([cleanup_session(St, capture) EXCEPT
                  !.vc = VulkanContext0,
                  !.fc = FSRContext0,
                  !.recorded = NoRecording,
                  !.imageLayout = ImageLayout0,
                  !.fenceSignaled = FALSE])
    /\ capture' = CaptureBuffer0
    /\ loc' = Locals0
    /\ pc' = IF loc.app_exit THEN "app_cleanup" ELSE "idle"
    /\ UNCHANGED <<pending, nextHandle>>
    /\ UNCHANGED mem

(* --------------------------- specification ------------------------------ *)

PresentResults == {"success", "out_of_date", "suboptimal", "error"}

CaptureResults == {"ok", "null", "bpp"}

MainStep ==
    \/ \E cap \in Extents, out \in Extents, caps \in SurfaceCaps, ok \in BOOLEAN :
           MainHotkey(cap, out, caps, ok)
    \/ SessionSetupFatal
    \/ MainDestroyNotify
    \/ MainOtherEvent
    \/ CleanupApp

\* run_session, but for its vkQueuePresentKHR
LoopStep ==
    \/ \E w \in EventWindows : EvDestroyNotify(w)
    \/ \E toggle \in BOOLEAN : EvKeyPress(toggle)
    \/ \E attrs \in Extents, caps \in SurfaceCaps, ok \in BOOLEAN :
           EvConfigureNotifyVk(attrs, caps, ok)
    \/ EvIgnored
    \/ RebuildFatal
    \/ EventsDrained
    \/ \E attrsOk \in BOOLEAN, new \in Extents, pixOk \in BOOLEAN :
           UpdateTargetPixmap(attrsOk, new, pixOk)
    \/ \E result \in CaptureResults : CaptureFrame(result)
    \/ UploadCapture
    \/ WaitAndResetFence
    \/ \E i \in 0..MinImageCount : AcquireSuccess(i)
    \/ \E attrs \in Extents, caps \in SurfaceCaps, ok \in BOOLEAN :
           AcquireInvalid(attrs, caps, ok)
    \/ AcquireError
    \/ \E rc \in BOOLEAN : RecordFrame(rc)
    \/ QueueSubmit
    \/ CleanupFsr
    \/ CleanupSession

SessionStep ==
    \/ LoopStep
    \/ \E result \in PresentResults : QueuePresent(result)

Next == MainStep \/ SessionStep \/ GpuComplete

Spec == Init /\ [][Next]_vars

\* The host thread runs whenever it is not blocked, and the GPU finishes what
\* was submitted to it.
FairSpec == Spec /\ WF_vars(SessionStep) /\ WF_vars(GpuComplete)

(* ------------- the frame loop with the present result kept -------------- *)

\* vkQueuePresentKHR, as QueuePresent, with the swapchain that answered
\* OUT_OF_DATE or SUBOPTIMAL remembered
QueuePresentTracked(result) ==
    /\ pc = "present"
    /\ pc' = IF result = "error" THEN "cleanup_fsr" ELSE "events"
    /\ loc' = [loc EXCEPT !.imageIndex = 0,
                          !.invalidated =
                              IF result \in {"out_of_date", "suboptimal"}
                              THEN vc.swapchain
                              ELSE Null]
    /\ UNCHANGED <<xc, vc, fc, capture, s_firstFrame, live, pending,
                   fenceSignaled, ffx, recorded, imageLayout, nextHandle>>
    /\ UNCHANGED mem

PresentNext ==
    \/ MainStep
    \/ LoopStep
    \/ \E result \in PresentResults : QueuePresentTracked(result)
    \/ GpuComplete

PresentSpec == Init /\ [][PresentNext]_vars

(* ------------- upload_capture_to_staging on its own --------------------- *)

\* bytes of row padding of an XImage (bytes_per_line = 4 * width + padding)
RowPaddings == {0, 4}

\* value of a byte the previous owner of the memory left in a fresh mapping
StaleByte == 255

\* the 32 bpp ZPixmap image XGetImage returns for a w x h request; every byte
\* carries a non-zero value that tells its offset
XImageOf(w, h, padding) ==
    [width |-> w, height |-> h, bytes_per_line |-> 4 * w + padding,
     data |-> [o \in 0..(h * (4 * w + padding) - 1) |-> (o % 250) + 1]]

XImages ==
    {XImageOf(w, h, padding) : w \in 1..MaxDim, h \in 1..MaxDim,
                               padding \in RowPaddings}

\* a session whose staging buffer create_staging_buffer made for the capture
\* extent e, holding stale bytes, with a first snapshot img about to be uploaded
UploadInit ==
    \E e \in (1..MaxDim) \X (1..MaxDim), img \in XImages :
        LET made == create_staging_buffer(
                        [St0 EXCEPT !.vc.captureExtent = e], 1)
        IN  /\ pc = "upload"
            /\ xc = X11Context0
            /\ vc = made.vc
            /\ live = made.live
            /\ fc = FSRContext0
            /\ capture = [image |-> 1, bits_per_pixel |-> 32]
            /\ loc = Locals0
            /\ s_firstFrame = TRUE
            /\ pending = {}
            /\ fenceSignaled = TRUE
            /\ ffx = Ffx0
            /\ recorded = NoRecording
            /\ imageLayout = ImageLayout0
            /\ nextHandle = 2
            /\ mem = [Mem0 EXCEPT
                         !.image = img,
                         !.staging =
                             [o \in 0..(made.vc.stagingSize - 1) |-> StaleByte]]

\* upload_capture_to_staging(xc, capture, vc)
UploadBytes ==
    /\ pc = "upload"
    /\ mem' = upload_capture_to_staging(mem, vc.captureExtent, vc.stagingSize)
    /\ pc' = "wait"
    /\ UNCHANGED <<xc, vc, fc, capture, loc, s_firstFrame, live, pending,
                   fenceSignaled, ffx, recorded, imageLayout, nextHandle>>

\* the rest of the iteration and the next capture_frame, which returns img
NextSnapshot(img) ==
    /\ pc = "wait"
    /\ mem' = [mem EXCEPT !.image = img]
    /\ pc' = "upload"
    /\ UNCHANGED <<xc, vc, fc, capture, loc, s_firstFrame, live, pending,
                   fenceSignaled, ffx, recorded, imageLayout, nextHandle>>

UploadNext == UploadBytes \/ \E img \in XImages : NextSnapshot(img)

UploadSpec == UploadInit /\ [][UploadNext]_vars

(* ------------ the staging commands of a frame, executed ------------------ *)

\* the B8G8R8A8 texel stored at byte offset o of a buffer
Texel(buffer, o) == <<buffer[o], buffer[o + 1], buffer[o + 2], buffer[o + 3]>>

\* the texel of an image that nothing has written yet
StaleTexel == <<StaleByte, StaleByte, StaleByte, StaleByte>>

\* vkCmdCopyBufferToImage with capCopy: bufferRowLength = extent width, image
\* offset 0, image extent = extent
vkCmdCopyBufferToImage(buffer, image, extent) ==
    [t \in DOMAIN image |->
        IF t[1] < extent[1] /\ t[2] < extent[2]
        THEN Texel(buffer, (t[2] * extent[1] + t[1]) * 4)
        ELSE image[t]]

\* mutant: the blit samples the source at the far edge of each texel
vkCmdBlitImage_edge(src, srcExtent, dst, dstExtent) ==
    [t \in DOMAIN dst |->
        IF t[1] < dstExtent[1] /\ t[2] < dstExtent[2]
        THEN src[<<Min(srcExtent[1] - 1, ((t[1] + 1) * srcExtent[1]) \div dstExtent[1]),
                   Min(srcExtent[2] - 1, ((t[2] + 1) * srcExtent[2]) \div dstExtent[2])>>]
        ELSE dst[t]]

\* vkCmdBlitImage with blit and VK_FILTER_NEAREST: the source region
\* (0,0)..srcExtent scaled onto the destination region (0,0)..dstExtent, each
\* destination texel taking the source texel under its centre
vkCmdBlitImage(src, srcExtent, dst, dstExtent) ==
    [t \in DOMAIN dst |->
        IF t[1] < dstExtent[1] /\ t[2] < dstExtent[2]
        THEN src[<<((2 * t[1] + 1) * srcExtent[1]) \div (2 * dstExtent[1]),
                   ((2 * t[2] + 1) * srcExtent[2]) \div (2 * dstExtent[2])>>]
        ELSE dst[t]]

\* the texels of a width x height image just created
FreshImage(extent) ==
    [t \in (0..(extent[1] - 1)) \X (0..(extent[2] - 1)) |-> StaleTexel]

\* A session constructed for a source of size made (render extent = capture
\* extent = made) whose source now has size now, not larger than made in
\* either direction (update_target_pixmap_if_needed follows the source);
\* the first frame, a snapshot img, is uploaded, recorded and submitted.
BlitInit ==
    \E made \in (1..MaxDim) \X (1..MaxDim), now \in (1..MaxDim) \X (1..MaxDim),
       img \in XImages :
        LET built == create_fsr_images(
                         create_staging_buffer(
                             [St0 EXCEPT !.vc.captureExtent = made,
                                         !.vc.renderExtent = made,
                                         !.vc.displayExtent = made], 1), 1)
            moved == [built EXCEPT !.vc.captureExtent = now]
            frame == record_upscale_and_present(moved, 0, 0, TRUE)
            fresh == [o \in 0..(built.vc.stagingSize - 1) |-> StaleByte]
        IN  /\ now[1] <= made[1]
            /\ now[2] <= made[2]
            /\ pc = "present"
            /\ xc = X11Context0
            /\ vc = frame.vc
            /\ fc = frame.fc
            /\ live = frame.live
            /\ ffx = frame.ffx
            /\ s_firstFrame = frame.s_firstFrame
            /\ recorded = frame.recorded
            /\ imageLayout = frame.imageLayout
            /\ capture = [image |-> 1, bits_per_pixel |-> 32]
            /\ loc = [Locals0 EXCEPT !.frameCount = 1]
            /\ pending = {[cmd |-> frame.recorded.cmd, refs |-> frame.recorded.refs,
                           frame |-> 1]}
            /\ fenceSignaled = FALSE
            /\ nextHandle = 2
            /\ mem = [upload_capture_to_staging(
                          [Mem0 EXCEPT !.image = img, !.staging = fresh],
                          now, built.vc.stagingSize)
                      EXCEPT !.captureColorImage = FreshImage(made),
                             !.inputColorImage = FreshImage(made)]

\* the GPU runs the next command of the submitted command buffer
GpuExecute ==
    /\ pending # {}
    /\ mem.executed < Len(recorded.cmds)
    /\ LET c == recorded.cmds[mem.executed + 1]
       IN  mem' = [mem EXCEPT
                      !.executed = @ + 1,
                      !.captureColorImage =
                          IF c.op = "vkCmdCopyBufferToImage"
                          THEN vkCmdCopyBufferToImage(mem.staging, @,
                                                      vc.captureExtent)
                          ELSE @,
                      !.inputColorImage =
                          IF c.op = "vkCmdBlitImage"
                          THEN vkCmdBlitImage(mem.captureColorImage,
                                              vc.captureExtent, @,
                                              vc.renderExtent)
                          ELSE @]
    /\ UNCHANGED <<pc, xc, vc, fc, capture, loc, s_firstFrame, live, pending,
                   fenceSignaled, ffx, recorded, imageLayout, nextHandle>>

BlitSpec == BlitInit /\ [][GpuExecute]_vars

(* ------------------ the surface rebuild on its own ----------------------- *)

\* number of rebuilds followed in RebuildSpec
MaxRebuilds == 4

\* a session as run_session leaves it when it enters the frame loop
RebuildInit ==
    \E cap \in Extents, out \in Extents, caps \in SurfaceCaps, ok \in BOOLEAN :
        LET made == SessionSetup(St0, cap, out, caps, 1, ok)
        IN  /\ pc = "events"
            /\ xc = made.xc
            /\ vc = made.vc
            /\ fc = made.fc
            /\ live = made.live
            /\ ffx = made.ffx
            /\ fenceSignaled = made.fenceSignaled
            /\ s_firstFrame = made.s_firstFrame
            /\ recorded = made.recorded
            /\ imageLayout = made.imageLayout
            /\ capture = CaptureBuffer0
            /\ loc = Locals0
            /\ pending = {}
            /\ nextHandle = 2
            /\ mem = Mem0

\* the rebuild of the ConfigureNotify handler, one after the other
SurfaceRebuild(attrs, caps, ok) ==
    /\ pc = "events"
    /\ nextHandle <= MaxRebuilds + 1
    /\ vkDeviceWaitIdle
    /\ Commit(RebuildBody(St, attrs, caps, nextHandle, ok))
    /\ nextHandle' = nextHandle + 1
    /\ UNCHANGED <<pc, capture, loc, pending>>
    /\ UNCHANGED mem

RebuildNext ==
    \E attrs \in Extents, caps \in SurfaceCaps, ok \in BOOLEAN :
        SurfaceRebuild(attrs, caps, ok)

RebuildSpec == RebuildInit /\ [][RebuildNext]_vars

(* ----------------- the surface format over rebuilds ---------------------- *)

\* a session whose surface reports any of the format lists
FormatInit ==
    \E cap \in Extents, out \in Extents, caps \in SurfaceCapsAnyFormat,
       ok \in BOOLEAN :
        LET made == SessionSetup(St0, cap, out, caps, 1, ok)
        IN  /\ pc = "events"
            /\ xc = made.xc
            /\ vc = made.vc
            /\ fc = made.fc
            /\ live = made.live
            /\ ffx = made.ffx
            /\ fenceSignaled = made.fenceSignaled
            /\ s_firstFrame = made.s_firstFrame
            /\ recorded = made.recorded
            /\ imageLayout = made.imageLayout
            /\ capture = CaptureBuffer0
            /\ loc = Locals0
            /\ pending = {}
            /\ nextHandle = 2
            /\ mem = Mem0

FormatNext ==
    \E attrs \in Extents, caps \in SurfaceCapsAnyFormat, ok \in BOOLEAN :
        SurfaceRebuild(attrs, caps, ok)

FormatSpec == FormatInit /\ [][FormatNext]_vars

(* ------------- the frame counter over whole iterations ------------------- *)

\* number of recorded frames followed in JitterSpec
MaxJitterFrames == 3

\* an iteration that capture_frame ends: "continue", frameCount untouched
IterationSkipped(result) ==
    /\ pc = "events"
    /\ ~capture_frame_ok(capture_frame_image(xc, result))
    /\ capture' = capture_frame_image(xc, result)
    /\ live' = (live \ NonNull({<<"ximage", capture.image>>}))
               \cup NonNull({<<"ximage", capture'.image>>})
    /\ UNCHANGED <<pc, xc, vc, fc, loc, s_firstFrame, pending, fenceSignaled,
                   ffx, recorded, imageLayout, nextHandle>>
    /\ UNCHANGED mem

\* an iteration that reaches record_upscale_and_present(..., frameCount++);
\* the frame is submitted, presented and finished before the next iteration
IterationRecorded(i, rc) ==
    /\ pc = "events"
    /\ loc.frameCount < MaxJitterFrames
    /\ i \in 0..(vc.swapImages - 1)
    /\ LET frame == record_upscale_and_present(St, i, loc.frameCount, rc)
       IN  /\ Commit(frame)
           /\ loc' = [loc EXCEPT
                         !.frameCount = @ + 1,
                         !.dispatched =
                             IF frame.recorded.fsrCalled
                             THEN Append(@, frame.recorded.dispatchUpscale.jitterOn)
                             ELSE @]
    /\ UNCHANGED <<pc, capture, pending, nextHandle>>
    /\ UNCHANGED mem

\* iterations of one session: skipped by a capture failure, ended by a rebuild
\* (ConfigureNotify, or acquire invalidation and "continue"), or recorded
JitterNext ==
    \/ \E result \in CaptureResults : IterationSkipped(result)
    \/ \E attrs \in Extents, caps \in SurfaceCaps, ok \in BOOLEAN :
           SurfaceRebuild(attrs, caps, ok)
    \/ \E i \in 0..MinImageCount, rc \in BOOLEAN : IterationRecorded(i, rc)

JitterSpec == RebuildInit /\ [][JitterNext]_vars

(* ------------------------------- claims --------------------------------- *)

InSession == pc \in {"events", "update", "capture", "upload", "wait", "acquire",
                     "record", "submit", "present"}

\* C1 (as claimed): whenever upload_capture_to_staging writes the staging
\* buffer, no submitted command buffer that reads that buffer is still
\* executing: the fence wait on the previous frame came first.
C1_UploadAfterFenceWait ==
    [][(pc = "upload" /\ pc' = "wait")
         => \A p \in pending : <<"stagingBuffer", vc.stagingBuffer>> \notin p.refs]_vars

\* C2: at most one frame is in flight, and from the fence wait up to the
\* submit (command buffer reset, recording) nothing submitted is still pending.
C2_OneFrameInFlight ==
    /\ Cardinality(pending) <= 1
    /\ pc \in {"acquire", "record", "submit"} => pending = {}

\* C2 witness: a second frame has been recorded after the first was submitted.
C2_Witness == pc = "submit" /\ loc.frameCount = 2

\* C3 (as claimed): the loop never blocks forever: whenever it reaches the
\* fence wait at the top of a frame (in particular in the iteration after an
\* OutOfDate / Suboptimal acquire), the wait returns and the acquire follows.
C3_LoopContinuesAfterInvalidAcquire == [](pc = "wait" => <>(pc = "acquire"))

\* C4 (as claimed): no step destroys an object that a submitted, unfinished
\* command buffer references.
C4_NoDestroyWhileInFlight ==
    [][\A p \in pending : p.refs \cap (live \ live') = {}]_vars

\* C5 (as claimed): once the session has ended, nothing it created exists;
\* only the main window and the display connection remain.
C5_NothingRemainsAfterSession ==
    pc \in {"idle", "app_cleanup"} => live = {<<"mainWindow", 1>>, <<"display", 1>>}

\* C6 (as claimed): the first ffx::Dispatch against a newly created context
\* has the reset flag set.
C6_FirstDispatchResets ==
    [][(pc = "record" /\ pc' = "submit" /\ recorded'.fsrCalled
          /\ recorded'.context \in ffx.fresh)
         => recorded'.dispatchUpscale.reset]_vars

\* C7: ffx::Dispatch is never called with a null handle, and the handle it is
\* called with is the session's current context, which has not been destroyed.
C7_DispatchOnlyLiveContext ==
    /\ recorded.fsrCalled => recorded.context # Null
    /\ (pc = "submit" /\ recorded.fsrCalled)
         => /\ recorded.context = fc.m_UpscalingContext
            /\ <<"fsrContext", recorded.context>> \in live
    /\ (pc = "submit" /\ fc.m_UpscalingContext = Null) => ~recorded.fsrCalled

\* C7 witness: a dispatch against context 2 after context 1 was destroyed.
C7_Witness ==
    /\ pc = "submit"
    /\ recorded.fsrCalled
    /\ recorded.context = 2
    /\ <<"fsrContext", 1>> \notin live

\* a step of a running session that replaces the swapchain: a rebuild
RebuildStep ==
    /\ vc.swapchain # Null
    /\ vc'.swapchain # Null
    /\ vc'.swapchain # vc.swapchain

\* C8 (as claimed): after every rebuild the context handle is non-null and
\* differs from the handle before the rebuild.
C8_RebuildYieldsFreshContext ==
    [][RebuildStep => /\ fc'.m_UpscalingContext # Null
                      /\ fc'.m_UpscalingContext # fc.m_UpscalingContext]_vars

FsrImages(v) ==
    NonNull({<<"inputColorImage", v.inputColorImage>>,
             <<"outputColorImage", v.outputColorImage>>,
             <<"motionVectorImage", v.motionVectorImage>>,
             <<"depthImage", v.depthImage>>,
             <<"captureColorImage", v.captureColorImage>>})

\* the context, when there is one, was created for the current extents
ContextSizedForExtents ==
    fc.m_UpscalingContext # Null
        => /\ fc.maxUpscaleSize = vc.displayExtent
           /\ fc.maxRenderSize = vc.renderExtent

\* a recorded dispatch used the sizes its context was created for
DispatchSizedForContext ==
    recorded.fsrCalled
        => /\ recorded.dispatchUpscale.upscaleSize = fc.maxUpscaleSize
           /\ recorded.dispatchUpscale.renderSize = fc.maxRenderSize
           /\ recorded.dispatchUpscale.upscaleSize = vc.displayExtent
           /\ recorded.dispatchUpscale.renderSize = vc.renderExtent

\* the step that handles one ConfigureNotify of vkWindow: the one step of the
\* event drain in which the platform hands out new handles (every
\* EvConfigureNotifyVk step is such a step)
ConfigureNotifyVkStep ==
    /\ pc = "events"
    /\ nextHandle' = nextHandle + 1

\* what the handling of one ConfigureNotify of vkWindow leaves behind
ConfigureNotifyRebuilt ==
    /\ pc' = "events"
    /\ vc'.swapchain \notin {Null, vc.swapchain}
    /\ <<"swapchain", vc.swapchain>> \notin live'
    /\ <<"swapchain", vc'.swapchain>> \in live'
    /\ FsrImages(vc) \cap live' = {}
    /\ FsrImages(vc') \subseteq live'
    /\ Cardinality(FsrImages(vc')) = 5
    /\ recorded' = NoRecording
    /\ fc.m_UpscalingContext # Null
          => <<"fsrContext", fc.m_UpscalingContext>> \notin live'
    /\ fc'.m_UpscalingContext # Null
          => /\ fc'.m_UpscalingContext # fc.m_UpscalingContext
             /\ <<"fsrContext", fc'.m_UpscalingContext>> \in live'
             /\ fc'.maxUpscaleSize = vc'.displayExtent
             /\ fc'.maxRenderSize = vc'.renderExtent

ContextCreatedInSession ==
    /\ vc.instance # Null
    /\ vc'.instance = vc.instance
    /\ fc'.m_UpscalingContext # Null
    /\ fc'.m_UpscalingContext # fc.m_UpscalingContext

ContextTouchedInSession ==
    /\ vc.instance # Null
    /\ vc'.instance = vc.instance
    /\ \/ fc'.m_UpscalingContext # fc.m_UpscalingContext
       \/ \E h \in 1..nextHandle :
              (<<"fsrContext", h>> \in live) # (<<"fsrContext", h>> \in live')

\* a rebuild step: the handling of a ConfigureNotify of vkWindow in the event
\* drain, or of an OutOfDate / Suboptimal acquire; these are the steps of the
\* loop in which the platform hands out new handles, and both lead back to
\* the event drain
RebuildEvent ==
    /\ pc \in {"events", "acquire"}
    /\ nextHandle' = nextHandle + 1
    /\ pc' = "events"

InFrame == pc \in {"upload", "wait", "acquire", "record", "submit", "present"}

\* C11 (as claimed): while a frame is processed the capture extent of the
\* pipeline is the source window's current size and the staging buffer has
\* that size.
C11_CaptureExtentFollowsSource ==
    InFrame => /\ vc.captureExtent = <<xc.capW, xc.capH>>
               /\ vc.stagingSize = xc.capW * xc.capH * 4

\* C12: the step that runs update_target_pixmap_if_needed leaves the
\* swapchain, its images, the swap extent, the display extent and the command
\* buffers (indeed the whole VulkanContext) as they were, destroys and creates
\* no swapchain or command buffer, and goes on to the capture: no rebuild.
C12_SourceResizeKeepsSwapSurface ==
    [][(pc = "update" /\ pc' # pc)
         => /\ vc'.swapchain = vc.swapchain
            /\ vc'.swapImages = vc.swapImages
            /\ vc'.swapExtent = vc.swapExtent
            /\ vc'.displayExtent = vc.displayExtent
            /\ vc'.cmdBuffers = vc.cmdBuffers
            /\ vc'.cmdBufferCount = vc.cmdBufferCount
            /\ vc' = vc
            /\ {r \in live' : r[1] \in {"swapchain", "cmdBuffers", "cmdPool"}}
                 = {r \in live : r[1] \in {"swapchain", "cmdBuffers", "cmdPool"}}
            /\ nextHandle' = nextHandle
            /\ pc' = "capture"]_vars

\* C12 witness: a source resize has been handled (the size the program tracks
\* differs from the capture extent of the session) with the swapchain in place.
C12_Witness ==
    /\ pc = "capture"
    /\ <<xc.capW, xc.capH>> # vc.captureExtent
    /\ vc.swapchain # Null
    /\ <<"swapchain", vc.swapchain>> \in live

\* C13: handling the toggle hotkey stops the loop without requesting
\* application exit, and a session that ends without that request returns
\* main to its idle loop with the main window and the display still there.
C13_HotkeyEndsSessionOnly ==
    /\ [][EvKeyPress(TRUE)
            => (~loc'.running /\ loc'.app_exit = loc.app_exit)]_vars
    /\ [][(pc = "cleanup_session" /\ pc' # pc /\ ~loc.app_exit)
            => /\ pc' = "idle"
               /\ xc'.dpy # Null
               /\ xc'.mainWindow # Null]_vars

\* C13 witness: a second session runs after the first one ended without exit.
C13_Witness ==
    /\ pc = "events"
    /\ vc.instance = 2
    /\ ~loc.app_exit

\* C14 (as claimed): a DestroyNotify of the presentation window vkWindow
\* makes run_session report application exit.
C14_OverlayDestroyExitsApp ==
    [][EvDestroyNotify("vk") => loc'.app_exit]_vars

\* C16: as long as the process runs and cleanup_app has not run, the display
\* connection and the main window exist and the context still holds them.
C16_SessionKeepsDisplay ==
    pc \notin {"exited", "fatal"}
        => /\ xc.dpy # Null
           /\ xc.mainWindow # Null
           /\ <<"display", xc.dpy>> \in live
           /\ <<"mainWindow", xc.mainWindow>> \in live

\* C16 witness: back in the idle loop after a session, display still open.
C16_Witness ==
    /\ pc = "idle"
    /\ nextHandle > 1
    /\ <<"display", xc.dpy>> \in live

\* C20: when capture_frame fails, the iteration ends there: the loop is back
\* at the event drain, and the Vulkan and FSR state, the fence, the pending
\* and recorded command buffers, the frame counter and every object other
\* than the XImage are as before.
C20_CaptureFailureSkipsFrame ==
    [][(pc = "capture" /\ pc' # pc /\ ~capture_frame_ok(capture'))
         => /\ pc' = "events"
            /\ UNCHANGED <<xc, vc, fc, loc, pending, fenceSignaled, recorded, imageLayout,
                           ffx, s_firstFrame>>
            /\ {r \in live' : r[1] # "ximage"} = {r \in live : r[1] # "ximage"}]_vars

\* C20 witness: after one presented frame a capture returned a 24 bpp image
\* and the loop is back at the event drain, still running.
C20_Witness ==
    /\ pc = "events"
    /\ capture.bits_per_pixel = 24
    /\ loc.frameCount = 1
    /\ loc.running

\* the session is over: main is back in its idle loop, or the process ends
SessionOver == pc \in {"idle", "app_cleanup", "exited", "fatal"}

\* C15 (as claimed): a press of the toggle hotkey is taken from the X event
\* queue by the event drain only; so from every state of the frame loop the
\* loop comes back to the event drain (or the session is over), and once the
\* drain has taken the press (running is false) the session ends.
C15_HotkeyEventuallyEndsSession ==
    /\ [](InFrame => <>(pc = "events" \/ SessionOver))
    /\ []((pc = "events" /\ ~loc.running) => <>SessionOver)

Positive(extent) == extent[1] > 0 /\ extent[2] > 0

\* C19 (as claimed): while a frame has been recorded or submitted for
\* presentation, the capture, render and display extents are all positive.
C19_NoFrameOnZeroExtent ==
    pc \in {"submit", "present"}
        => /\ Positive(vc.captureExtent)
           /\ Positive(vc.renderExtent)
           /\ Positive(vc.displayExtent)

\* the byte the snapshot holds for offset o of a buffer of row length
\* dstStride, when that byte lies in the first rows x cols pixels; else zero
ExpectedByte(o, img, rows, cols, dstStride) ==
    LET y == o \div dstStride
        k == o % dstStride
    IN  IF y < rows /\ k < cols * 4
        THEN img.data[y * img.bytes_per_line + k]
        ELSE 0

\* C17: after upload_capture_to_staging the staging memory holds exactly
\* stagingSize bytes: the snapshot's pixels in the first min(snapshot, buffer)
\* rows and columns, and zero everywhere else; no stale byte is left.
C17_UploadCopiesAndZeroFills ==
    pc = "wait"
        => /\ DOMAIN mem.staging = 0..(vc.stagingSize - 1)
           /\ \A o \in DOMAIN mem.staging :
                 /\ mem.staging[o] =
                       ExpectedByte(o, mem.image,
                                    Min(vc.captureExtent[2], mem.image.height),
                                    Min(vc.captureExtent[1], mem.image.width),
                                    vc.captureExtent[1] * 4)
                 /\ mem.staging[o] # StaleByte

\* C17 witness: an upload of a snapshot narrower and taller than the buffer:
\* part of each row is zero fill, the last snapshot rows are dropped.
C17_Witness ==
    /\ pc = "wait"
    /\ mem.image.width < vc.captureExtent[1]
    /\ mem.image.height > vc.captureExtent[2]
    /\ \E o \in DOMAIN mem.staging : mem.staging[o] = 0
    /\ \E o \in DOMAIN mem.staging : mem.staging[o] # 0

\* C18: upload_capture_to_staging reads only bytes of the snapshot (height
\* times bytes_per_line of them) and writes only bytes of the staging buffer.
C18_UploadStaysInBounds ==
    pc = "wait"
        => /\ mem.reads \subseteq
                  0..(mem.image.height * mem.image.bytes_per_line - 1)
           /\ mem.writes \subseteq 0..(vc.stagingSize - 1)

\* C18 witness: an upload of a padded snapshot wider and lower than the buffer
\* (the source window grew in width and shrank in height).
C18_Witness ==
    /\ pc = "wait"
    /\ mem.image.width > vc.captureExtent[1]
    /\ mem.image.height < vc.captureExtent[2]
    /\ mem.image.bytes_per_line > 4 * mem.image.width
    /\ mem.reads # {}


\* C22 (as claimed): the process terminates on a fatal error only while a
\* session is being constructed; no step taken once the session is in its
\* frame loop (event handling, rebuild, fence wait, submit) ends the process.
C22_FatalOnlyAtConstruction == [][pc' = "fatal" => pc = "idle"]_vars

\* what an observer of the presentation surface sees of it
SurfaceObservables(s) ==
    [swapImages |-> s.vc.swapImages, cmdBufferCount |-> s.vc.cmdBufferCount,
     swapExtent |-> s.vc.swapExtent]

\* the surface after one rebuild and after two rebuilds in succession, each
\* given the window size attrs and the surface capabilities caps
RebuiltOnce(attrs, caps) ==
    RebuildBody(St, attrs, caps, nextHandle, TRUE)

RebuiltTwice(attrs, caps) ==
    RebuildBody(RebuiltOnce(attrs, caps), attrs, caps, nextHandle + 1, TRUE)

\* C24: in a session, before and after any number of rebuilds of the
\* presentation surface, two rebuilds in succession that get the same window
\* size and the same surface capabilities leave the same swap image count,
\* command buffer count and swap extent as one rebuild, whatever that size and
\* those capabilities are.
C24_RebuildIdempotent ==
    \A attrs \in Extents, caps \in SurfaceCaps :
        SurfaceObservables(RebuiltTwice(attrs, caps))
            = SurfaceObservables(RebuiltOnce(attrs, caps))

\* a session that has rebuilt its surface twice in succession, and where one
\* more rebuild with the window size just read replaces a swapchain and
\* command buffers of the same count and extent
C24_Witness ==
    /\ nextHandle = 4
    /\ vc.swapchain = 3
    /\ vc.cmdBufferCount = vc.swapImages
    /\ vc.cmdBufferCount > 0
    /\ \E caps \in SurfaceCaps :
           SurfaceObservables(RebuiltOnce(<<xc.outW, xc.outH>>, caps))
               = SurfaceObservables(St)

\* C25 (as claimed): cleanup_fsr is idempotent: after one call every handle
\* it destroyed is recorded as absent, so a second call with no creation in
\* between hands nothing to a destroy call.
C25_CleanupFsrIdempotent == cleanup_fsr_targets(cleanup_fsr(St)) = {}

\* C28 (as claimed): throughout a session, from its construction on and after
\* every rebuild, the display extent the accelerator output image and the copy
\* into the swap image use is the extent of the swapchain's images.
C28_DisplayExtentIsSwapExtent == InSession => vc.displayExtent = vc.swapExtent


\* the command stream was closed by vkEndCommandBuffer, once, as its last
\* command
RecordingEnded(rec) ==
    /\ rec.cmds # <<>>
    /\ \A i \in 1..Len(rec.cmds) :
           rec.cmds[i].op = "vkEndCommandBuffer" <=> i = Len(rec.cmds)

\* the submission of the command buffer recorded last
Submission(rec) == {p \in pending : p.cmd = rec.cmd /\ p.refs = rec.refs}

WritersBefore(cmds, i, res) == {j \in 1..(i - 1) : res \in cmds[j].writes}

Latest(positions) == CHOOSE j \in positions : \A k \in positions : k <= j

\* the swap image is filled from the output image, and the last command before
\* that copy to write the output image is the accelerator dispatch of this
\* same recording
PresentsDispatchOutput(cmds) ==
    \E i \in 1..Len(cmds) :
        /\ cmds[i].op = "vkCmdCopyImage"
        /\ cmds[i].writes = {"swapImage"}
        /\ LET w == WritersBefore(cmds, i, "outputColorImage")
           IN  /\ w # {}
               /\ cmds[Latest(w)].op = "ffx::Dispatch"

\* C27 (as claimed): every frame handed to the present carries in its swap
\* image the accelerator output produced in that same iteration (never content
\* of an earlier frame or unwritten memory), at the display extent of the
\* session.
C27_PresentedFrameIsDispatchOutput ==
    pc = "present" =>
        /\ PresentsDispatchOutput(recorded.cmds)
        /\ recorded.dispatchUpscale.upscaleSize = vc.displayExtent

\* every barrier of the stream cmds on the capture and the input colour image
\* declares as old layout the layout the image is in at that point, when the
\* images were in the layouts before at the start of the stream
DeclaredLayoutsActual(cmds, before) ==
    \A i \in 1..Len(cmds) :
        LET c == cmds[i]
        IN  (/\ c.op = "vkCmdPipelineBarrier"
             /\ c.image \in {"captureColorImage", "inputColorImage"})
            => c.oldLayout = LayoutAfter(SubSeq(cmds, 1, i - 1), c.image,
                                         before[c.image])

\* C29 (as claimed): every layout transition a frame records for the capture
\* and the input colour image declares the layout the image actually has:
\* undefined for an image not used since create_fsr_images made it, in
\* particular on the first frame after a rebuild inside the session.
C29_DeclaredOldLayoutIsActual ==
    [][(pc = "record" /\ pc' = "submit")
           => DeclaredLayoutsActual(recorded'.cmds, imageLayout)]_vars

\* C30 (as claimed): in a recorded frame every command that reads the capture,
\* the input or the output colour image comes after a barrier on that image
\* that itself comes after the last write to the image and makes that write
\* available; so the output image has a barrier between the dispatch that
\* writes it and the copy that reads it.
C30_ReadsFollowBarrierAfterWrite ==
    \A i \in 1..Len(recorded.cmds) :
        \A image \in recorded.cmds[i].reads
                         \cap {"captureColorImage", "inputColorImage",
                               "outputColorImage"} :
            LET w == WritersBefore(recorded.cmds, i, image)
            IN  w # {} =>
                    \E j \in (Latest(w) + 1)..(i - 1) :
                        /\ recorded.cmds[j].op = "vkCmdPipelineBarrier"
                        /\ recorded.cmds[j].image = image
                        /\ recorded.cmds[j].srcAccessMask # {}


\* C23 (as claimed): once a present on a swapchain has signalled OutOfDate or
\* Suboptimal, no further image is acquired from that swapchain (and so no
\* further frame submitted to it): the surface is rebuilt first.
C23_NoAcquireFromInvalidatedSurface ==
    [][(pc = "acquire" /\ pc' = "record")
           => loc.invalidated # vc.swapchain]_vars


\* the GPU has run the staging step of the submitted frame: the copy into the
\* capture image and the blit into the input image
StagingExecuted ==
    \E i \in 1..mem.executed : recorded.cmds[i].op = "vkCmdBlitImage"

\* C26: whenever the render extent equals the capture extent, once the staging
\* step of a frame has run the input (render-resolution) image holds texel for
\* texel what the capture-resolution image holds.
C26_LosslessBlitIsIdentity ==
    (StagingExecuted /\ vc.renderExtent = vc.captureExtent)
        => mem.inputColorImage = mem.captureColorImage

\* the staging step has run with equal extents on an image of several texels,
\* all of them written from the snapshot and not all alike
C26_Witness ==
    /\ StagingExecuted
    /\ vc.renderExtent = vc.captureExtent
    /\ \A t \in DOMAIN mem.inputColorImage : mem.inputColorImage[t] # StaleTexel
    /\ \E t, u \in DOMAIN mem.inputColorImage :
           mem.inputColorImage[t] # mem.inputColorImage[u]


\* C31 (as claimed): in every recorded frame, each image the accelerator
\* dispatch reads (input colour, depth, motion vectors) has a barrier earlier
\* in the stream that takes it to the shader-readable layout; no other place
\* of the program records a transition, so an image without one is still in
\* the undefined layout it was created in.
C31_DispatchInputsTransitioned ==
    \A i \in 1..Len(recorded.cmds) :
        recorded.cmds[i].op = "ffx::Dispatch" =>
            \A image \in recorded.cmds[i].reads :
                \E j \in 1..(i - 1) :
                    /\ recorded.cmds[j].op = "vkCmdPipelineBarrier"
                    /\ recorded.cmds[j].image = image
                    /\ recorded.cmds[j].newLayout = "SHADER_READ_ONLY_OPTIMAL"


\* C32: a dispatch against a context that has been dispatched against since
\* its creation has the reset flag false.
C32_ResetOnlyOnFirstDispatch ==
    [][(pc = "record" /\ pc' = "submit" /\ recorded'.fsrCalled
          /\ recorded'.context \notin ffx.fresh)
         => ~recorded'.dispatchUpscale.reset]_vars

\* the last frame of a session that has not rebuilt is dispatched against
\* the context the session began with
C32_Witness ==
    /\ pc = "submit"
    /\ loc.frameCount = MaxFrames
    /\ recorded.fsrCalled
    /\ recorded.context = 1
    /\ vc.swapchain = 1
    /\ ~recorded.dispatchUpscale.reset


\* the position of the frame loop that comes before each position of an
\* iteration's frame
FrameOrder ==
    [update |-> "events", capture |-> "update", upload |-> "capture",
     wait |-> "upload", acquire |-> "wait", record |-> "acquire",
     submit |-> "record", present |-> "submit"]

\* C33: every iteration starts with the event drain: the source geometry is
\* re-queried only when XPending has returned 0 with the session still
\* running, and capture, upload, fence wait, acquire, recording, submit and
\* present are each reached only from the step before them in that same
\* iteration.  Once a drained event has ended the session the iteration
\* captures, submits and presents nothing: the loop is left for the teardown.
C33_EventsDrainedFirst ==
    [][/\ (pc' # pc /\ pc' \in DOMAIN FrameOrder) => pc = FrameOrder[pc']
       /\ (pc = "events" /\ pc' = "update") => loc.running
       /\ (pc = "events" /\ ~loc.running) =>
              /\ pc' \in {"events", "cleanup_fsr", "fatal"}
              /\ ~loc'.running \/ pc' = "fatal"
              /\ capture' = capture \/ pc' = "fatal"
              /\ pending' \subseteq pending]_vars

\* after a frame of the session, an event that ends the session has been
\* drained and the loop is still in the drain
C33_Witness ==
    /\ pc = "events"
    /\ ~loc.running
    /\ loc.frameCount > 0
    /\ pending # {}


\* C34 (as claimed): of two consecutive dispatched frames of a session one has
\* the non-zero jitter offset and the other the zero offset.
C34_JitterAlternates ==
    \A k \in 1..(Len(loc.dispatched) - 1) :
        loc.dispatched[k] # loc.dispatched[k + 1]


\* C36 (as claimed): whenever the loop is at its unbounded fence wait, the
\* fence is signaled or a submitted command buffer that will signal it is
\* still executing.
C36_FenceWaitHasSignaller == pc = "wait" => (fenceSignaled \/ pending # {})

\* C37: app_exit starts out false with every session, becomes true exactly in
\* the step that drains a DestroyNotify of the main window, is left alone by
\* a DestroyNotify of any other window and by every other step of the session,
\* and the end of the session hands it to main: application cleanup if and
\* only if it is true, the idle loop otherwise.
C37_AppExitIffMainWindowDestroyed ==
    /\ [](pc \notin {"events", "update", "capture", "upload", "wait",
                     "acquire", "record", "submit", "present", "cleanup_fsr",
                     "cleanup_session", "fatal", "exited"} => ~loc.app_exit)
    /\ [][EvDestroyNotify("main") => loc'.app_exit]_vars
    /\ [][\A w \in EventWindows \ {"main"} :
              EvDestroyNotify(w) => loc'.app_exit = loc.app_exit]_vars
    /\ [][(loc'.app_exit /\ ~loc.app_exit) => EvDestroyNotify("main")]_vars
    /\ [][(loc.app_exit /\ ~loc'.app_exit)
            => (pc = "cleanup_session" \/ pc' \in {"fatal", "exited"})]_vars
    /\ [][(pc = "cleanup_session" /\ pc' # pc)
            => (pc' = "app_cleanup" <=> loc.app_exit)]_vars

\* C37 witness: a session that recorded frames is about to return true
C37_Witness ==
    /\ pc = "cleanup_session"
    /\ loc.app_exit
    /\ ~loc.running
    /\ loc.frameCount > 0


\* C38: no destroy call of a session is handed an object that was destroyed
\* before.  Wherever a rebuild can start (the event drain, the acquire),
\* everything its cleanup_fsr and then its recreate_swapchain hand to a destroy
\* call exists; the same holds for the cleanup_fsr and for the cleanup_session
\* that end the session.
C38_NoDoubleDestroy ==
    /\ pc \in {"events", "acquire", "cleanup_fsr"}
         => cleanup_fsr_targets(St) \subseteq live
    /\ pc \in {"events", "acquire"}
         => recreate_swapchain_targets(cleanup_fsr(St))
                \subseteq cleanup_fsr(St).live
    /\ pc = "cleanup_session"
         => cleanup_session_targets(St, capture) \subseteq live

\* C38 witness: the session, rebuilt once, is between its last cleanup_fsr
\* and its cleanup_session
C38_Witness ==
    /\ pc = "cleanup_session"
    /\ vc.instance = 1
    /\ vc.swapchain = 2
    /\ vc.inputColorImage = 2
    /\ <<"inputColorImage", 2>> \notin live
    /\ fc.m_UpscalingContext = Null


\* C35 (as claimed): whatever non-empty format list the surface reports, the
\* swapchain of the session has the format B8G8R8A8_UNORM.
C35_SwapchainFormatIsBGRA ==
    vc.swapchain # Null => vc.swapchainFormat = "B8G8R8A8_UNORM"

====
